---- MODULE Spec2Model ----
(***************************************************************************)
(* Token backend: the token lifecycle of routes/user_routes.js (an         *)
(* expiring Redis key per live token plus a per-user Redis hash holding    *)
(* the token history) and the character trie of utils/radixTree.js.        *)
(***************************************************************************)
EXTENDS Integers, Sequences, FiniteSets, TLC

VARIABLES store, history, now, issued, last, tree, stored, ops, inflight

vars == <<store, history, now, issued, last, tree, stored, ops, inflight>>
treeVars == <<tree, stored, ops>>

\* ---------------------------------------------------------------- bounds
\* clock steps, requests served, key length and trie operations of a run
MaxTicks == 2
MaxRequests == 4
MaxKeyLen == 2
MaxOps == 3
\* requests in flight at the same time
MaxInflight == 2

\* ------------------------------------------------------------- constants
\* { EX: 864000 }: time-to-live of a live token, in seconds (10 days)
TTL == 864000
\* the clock advances in steps of half a time-to-live
TickSeconds == TTL \div 2

Users == {"u1", "u2"}
Tokens == {"t1", "t2"}

\* JavaScript null, as a field of a record or of a response
Null == "null"

\* the null reply of a Redis read of an absent key; the replies are JSON
\* texts, modelled as tuples of fields, and the null reply as the empty one
NoReply == <<>>

\* the empty Redis hash / the empty object
Empty == [x \in {} |-> Null]

\* ------------------------------------------------- conversions (helpers)
\* new Date().toISOString(): the clock reading as a string
toISOString(d) == ToString(d)

\* JSON.stringify(tokenData): the fields in declaration order
JSONstringify(d) == <<d.userId, d.status, d.createdAt, d.deletedAt>>

\* JSON.parse(tokenDataString)
JSONparse(s) == [userId |-> s[1], status |-> s[2], createdAt |-> s[3], deletedAt |-> s[4]]

\* ------------------------------------------------------- Redis commands
\* redisClient.set(key, value, { EX: ttl })
redisSet(db, key, value, ttl) ==
  [k \in DOMAIN db \cup {key} |->
     IF k = key THEN [value |-> value, exp |-> now + ttl] ELSE db[k]]

\* redisClient.get(key): the value, or the null reply when the key is absent
redisGet(db, key) == IF key \in DOMAIN db THEN db[key].value ELSE NoReply

\* redisClient.del(key)
redisDel(db, key) == [k \in DOMAIN db \ {key} |-> db[k]]

\* a write that replaces the whole hash by the one field
redisHSetReplace(h, userId, field, value) ==
  [h EXCEPT ![userId] = [f \in {field} |-> value]]

\* redisClient.hSet(`token-history:${userId}`, field, value)
redisHSet(h, userId, field, value) ==
  [h EXCEPT ![userId] =
     [f \in DOMAIN h[userId] \cup {field} |->
        IF f = field THEN value ELSE h[userId][f]]]

\* redisClient.hGet(`token-history:${userId}`, field)
redisHGet(h, userId, field) ==
  IF field \in DOMAIN h[userId] THEN h[userId][field] ELSE NoReply

\* redisClient.hGetAll(`token-history:${userId}`)
redisHGetAll(h, userId) == h[userId]

\* respond(res, status, message, data), with the request it answers
respond(op, userId, token, status, message, data) ==
  [op |-> op, userId |-> userId, token |-> token,
   status |-> IF status >= 200 /\ status < 300 THEN "success" ELSE "error",
   code |-> status, message |-> message, data |-> data]

\* ------------------------------------------------------ token lifecycle
\* generateToken setting the live key with twice the time-to-live
generateTokenLongExpiry(userId, token) ==
  LET tokenData == [userId |-> userId, status |-> "active",
                    createdAt |-> toISOString(now), deletedAt |-> Null]
  IN /\ store' = redisSet(store, token, JSONstringify(tokenData), 2 * TTL)
     /\ history' = redisHSet(history, userId, token, JSONstringify(tokenData))
     /\ issued' = [issued EXCEPT ![userId] = @ \cup {token}]

\* generateToken without the history write
generateTokenNoHistory(userId, token) ==
  LET tokenData == [userId |-> userId, status |-> "active",
                    createdAt |-> toISOString(now), deletedAt |-> Null]
  IN /\ store' = redisSet(store, token, JSONstringify(tokenData), TTL)
     /\ history' = history
     /\ issued' = [issued EXCEPT ![userId] = @ \cup {token}]

\* generateToken(userId), token being the value of crypto.randomBytes
generateToken(userId, token) ==
  LET tokenData == [userId |-> userId, status |-> "active",
                    createdAt |-> toISOString(now), deletedAt |-> Null]
  IN /\ store' = redisSet(store, token, JSONstringify(tokenData), TTL)
     /\ history' = redisHSet(history, userId, token, JSONstringify(tokenData))
     /\ issued' = [issued EXCEPT ![userId] = @ \cup {token}]

\* POST /register; existingUser is the outcome of User.findOne
Register(u, existingUser) ==
  /\ ops < MaxRequests /\ ops' = ops + 1
  /\ UNCHANGED <<now, tree, stored, inflight>>
  /\ IF existingUser
       THEN /\ last' = respond("register", u, Null, 400, "Email or username already in use.", Null)
            /\ UNCHANGED <<store, history, issued>>
       ELSE \E token \in Tokens :
              /\ generateToken(u, token)
              /\ last' = respond("register", u, token, 201, "User registered successfully.", token)

\* POST /login; userFound is the outcome of User.findOne, isPasswordValid
\* that of bcrypt.compare
Login(u, userFound, isPasswordValid) ==
  /\ ops < MaxRequests /\ ops' = ops + 1
  /\ UNCHANGED <<now, tree, stored, inflight>>
  /\ IF ~userFound
       THEN /\ last' = respond("login", u, Null, 404, "User not found.", Null)
            /\ UNCHANGED <<store, history, issued>>
       ELSE IF ~isPasswordValid
         THEN /\ last' = respond("login", u, Null, 401, "Invalid password.", Null)
              /\ UNCHANGED <<store, history, issued>>
         ELSE \E token \in Tokens :
                /\ generateToken(u, token)
                /\ last' = respond("login", u, token, 200, "Login successful.", token)

\* the deactivation body removing the live key before it reads it
deactivateDelFirst(op, token, okMessage) ==
  LET tokenDataString == redisGet(redisDel(store, token), token)
  IN IF tokenDataString = NoReply
       THEN /\ last' = respond(op, Null, token, 404, "Token not found.", Null)
            /\ store' = redisDel(store, token)
            /\ UNCHANGED history
       ELSE LET parsed == JSONparse(tokenDataString)
                tokenData == [parsed EXCEPT !.status = "inactive",
                                            !.deletedAt = toISOString(now)]
            IN /\ history' = redisHSet(history, tokenData.userId, token, JSONstringify(tokenData))
               /\ store' = redisDel(store, token)
               /\ last' = respond(op, Null, token, 200, okMessage, Null)

\* the deactivation body writing the status deleted
deactivateDeleted(op, token, okMessage) ==
  LET tokenDataString == redisGet(store, token)
  IN IF tokenDataString = NoReply
       THEN /\ last' = respond(op, Null, token, 404, "Token not found.", Null)
            /\ UNCHANGED <<store, history>>
       ELSE LET parsed == JSONparse(tokenDataString)
                tokenData == [parsed EXCEPT !.status = "deleted",
                                            !.deletedAt = toISOString(now)]
            IN /\ history' = redisHSet(history, tokenData.userId, token, JSONstringify(tokenData))
               /\ store' = redisDel(store, token)
               /\ last' = respond(op, Null, token, 200, okMessage, Null)

\* the deactivation body without the del of the live key
deactivateNoDel(op, token, okMessage) ==
  LET tokenDataString == redisGet(store, token)
  IN IF tokenDataString = NoReply
       THEN /\ last' = respond(op, Null, token, 404, "Token not found.", Null)
            /\ UNCHANGED <<store, history>>
       ELSE LET parsed == JSONparse(tokenDataString)
                tokenData == [parsed EXCEPT !.status = "inactive",
                                            !.deletedAt = toISOString(now)]
            IN /\ history' = redisHSet(history, tokenData.userId, token, JSONstringify(tokenData))
               /\ store' = store
               /\ last' = respond(op, Null, token, 200, okMessage, Null)

\* the body shared by POST /logout and POST /delete-token
deactivate(op, token, okMessage) ==
  LET tokenDataString == redisGet(store, token)
  IN IF tokenDataString = NoReply
       THEN /\ last' = respond(op, Null, token, 404, "Token not found.", Null)
            /\ UNCHANGED <<store, history>>
       ELSE LET parsed == JSONparse(tokenDataString)
                tokenData == [parsed EXCEPT !.status = "inactive",
                                            !.deletedAt = toISOString(now)]
            IN /\ history' = redisHSet(history, tokenData.userId, token, JSONstringify(tokenData))
               /\ store' = redisDel(store, token)
               /\ last' = respond(op, Null, token, 200, okMessage, Null)

\* POST /logout
Logout(token) ==
  /\ ops < MaxRequests /\ ops' = ops + 1
  /\ UNCHANGED <<now, issued, tree, stored, inflight>>
  /\ deactivate("logout", token, "Logout successful.")

\* POST /delete-token
DeleteToken(token) ==
  /\ ops < MaxRequests /\ ops' = ops + 1
  /\ UNCHANGED <<now, issued, tree, stored, inflight>>
  /\ deactivate("delete-token", token, "Token deleted successfully.")

\* POST /reactivate-token looking the token up in the history of any user
ReactivateTokenAnyUser(userId, token) ==
  /\ ops < MaxRequests /\ ops' = ops + 1
  /\ UNCHANGED <<now, issued, tree, stored, inflight>>
  /\ LET holders == {u \in Users : redisHGet(history, u, token) # NoReply}
         holder == IF redisHGet(history, userId, token) # NoReply \/ holders = {}
                     THEN userId ELSE CHOOSE u \in holders : TRUE
         tokenDataString == redisHGet(history, holder, token)
     IN IF tokenDataString = NoReply
          THEN /\ last' = respond("reactivate-token", userId, token, 404, "Token not found in history.", Null)
               /\ UNCHANGED <<store, history>>
          ELSE IF JSONparse(tokenDataString).status = "active"
            THEN /\ last' = respond("reactivate-token", userId, token, 400, "Token is already active.", Null)
                 /\ UNCHANGED <<store, history>>
            ELSE LET tokenData == [JSONparse(tokenDataString) EXCEPT
                                     !.status = "active", !.deletedAt = Null]
                 IN /\ store' = redisSet(store, token, JSONstringify(tokenData), TTL)
                    /\ history' = redisHSet(history, holder, token, JSONstringify(tokenData))
                    /\ last' = respond("reactivate-token", userId, token, 200, "Token reactivated successfully.", Null)

\* POST /reactivate-token giving the key what was left of the first
\* time-to-live instead of a fresh one
ReactivateTokenStaleExpiry(userId, token) ==
  /\ ops < MaxRequests /\ ops' = ops + 1
  /\ UNCHANGED <<now, issued, tree, stored, inflight>>
  /\ LET tokenDataString == redisHGet(history, userId, token)
     IN IF tokenDataString = NoReply
          THEN /\ last' = respond("reactivate-token", userId, token, 404, "Token not found in history.", Null)
               /\ UNCHANGED <<store, history>>
          ELSE IF JSONparse(tokenDataString).status = "active"
            THEN /\ last' = respond("reactivate-token", userId, token, 400, "Token is already active.", Null)
                 /\ UNCHANGED <<store, history>>
            ELSE LET tokenData == [JSONparse(tokenDataString) EXCEPT
                                     !.status = "active", !.deletedAt = Null]
                 IN /\ store' = redisSet(store, token, JSONstringify(tokenData), TTL - now)
                    /\ history' = redisHSet(history, userId, token, JSONstringify(tokenData))
                    /\ last' = respond("reactivate-token", userId, token, 200, "Token reactivated successfully.", Null)

\* POST /reactivate-token without the already-active check
ReactivateTokenNoCheck(userId, token) ==
  /\ ops < MaxRequests /\ ops' = ops + 1
  /\ UNCHANGED <<now, issued, tree, stored, inflight>>
  /\ LET tokenDataString == redisHGet(history, userId, token)
     IN IF tokenDataString = NoReply
          THEN /\ last' = respond("reactivate-token", userId, token, 404, "Token not found in history.", Null)
               /\ UNCHANGED <<store, history>>
          ELSE LET tokenData == [JSONparse(tokenDataString) EXCEPT
                                   !.status = "active", !.deletedAt = Null]
               IN /\ store' = redisSet(store, token, JSONstringify(tokenData), TTL)
                  /\ history' = redisHSet(history, userId, token, JSONstringify(tokenData))
                  /\ last' = respond("reactivate-token", userId, token, 200, "Token reactivated successfully.", Null)

\* POST /reactivate-token
ReactivateToken(userId, token) ==
  /\ ops < MaxRequests /\ ops' = ops + 1
  /\ UNCHANGED <<now, issued, tree, stored, inflight>>
  /\ LET tokenDataString == redisHGet(history, userId, token)
     IN IF tokenDataString = NoReply
          THEN /\ last' = respond("reactivate-token", userId, token, 404, "Token not found in history.", Null)
               /\ UNCHANGED <<store, history>>
          ELSE IF JSONparse(tokenDataString).status = "active"
            THEN /\ last' = respond("reactivate-token", userId, token, 400, "Token is already active.", Null)
                 /\ UNCHANGED <<store, history>>
            ELSE LET tokenData == [JSONparse(tokenDataString) EXCEPT
                                     !.status = "active", !.deletedAt = Null]
                 IN /\ store' = redisSet(store, token, JSONstringify(tokenData), TTL)
                    /\ history' = redisHSet(history, userId, token, JSONstringify(tokenData))
                    /\ last' = respond("reactivate-token", userId, token, 200, "Token reactivated successfully.", Null)

\* GET /token-history/:userId
TokenHistory(userId) ==
  /\ ops < MaxRequests /\ ops' = ops + 1
  /\ UNCHANGED <<now, store, history, issued, tree, stored, inflight>>
  /\ LET h == redisHGetAll(history, userId)
     IN IF DOMAIN h = {}
          THEN last' = respond("token-history", userId, Null, 404, "No token history found for this user.", Null)
          ELSE last' = respond("token-history", userId, Null, 200, "Token history fetched successfully.",
                               {[token |-> token] @@ JSONparse(h[token]) : token \in DOMAIN h})

\* Time passes, half a time-to-live or a whole one; Redis drops every key
\* whose time-to-live has elapsed.
Tick(seconds) ==
  /\ now + seconds <= MaxTicks * TickSeconds
  /\ now' = now + seconds
  /\ store' = [k \in {t \in DOMAIN store : store[t].exp > now'} |-> store[k]]
  /\ last' = respond("tick", Null, Null, 200, "", Null)
  /\ UNCHANGED <<history, issued, treeVars, inflight>>

\* ------------------------------------------- the handlers, await by await
\* A request in flight: the handler, its arguments, the await it is
\* suspended at, and the JSON text it holds (the reply it waits for or the
\* tokenData it is about to write).
request(id, op, userId, token, pc, data) ==
  [id |-> id, op |-> op, userId |-> userId, token |-> token, pc |-> pc, data |-> data]

\* generateToken up to its first await: tokenData is built and the live
\* key is set (called from POST /register or POST /login)
StartIssue(limit, op, userId, token) ==
  /\ Cardinality(inflight) < limit
  /\ ops < MaxRequests /\ ops' = ops + 1
  /\ LET tokenData == [userId |-> userId, status |-> "active",
                       createdAt |-> toISOString(now), deletedAt |-> Null]
     IN /\ store' = redisSet(store, token, JSONstringify(tokenData), TTL)
        /\ inflight' = inflight \cup
             {request(ops, op, userId, token, "hSet", JSONstringify(tokenData))}
  /\ UNCHANGED <<history, now, issued, last, tree, stored>>

\* generateToken from its second await on: the history write, then the
\* handler responds with the token
FinishIssue(r) ==
  /\ r.op \in {"register", "login"} /\ r.pc = "hSet"
  /\ history' = redisHSet(history, r.userId, r.token, r.data)
  /\ issued' = [issued EXCEPT ![r.userId] = @ \cup {r.token}]
  /\ last' = IF r.op = "register"
               THEN respond(r.op, r.userId, r.token, 201, "User registered successfully.", r.token)
               ELSE respond(r.op, r.userId, r.token, 200, "Login successful.", r.token)
  /\ inflight' = inflight \ {r}
  /\ UNCHANGED <<store, now, tree, stored, ops>>

\* POST /logout and POST /delete-token up to the first await: the get
StartDeactivate(limit, op, token) ==
  /\ Cardinality(inflight) < limit
  /\ ops < MaxRequests /\ ops' = ops + 1
  /\ inflight' = inflight \cup
       {request(ops, op, Null, token, "get", redisGet(store, token))}
  /\ UNCHANGED <<store, history, now, issued, last, tree, stored>>

\* the deactivation with the del sent before the history write
DeactivateWriteDelFirst(r) ==
  /\ r.op \in {"logout", "delete-token"} /\ r.pc = "get"
  /\ UNCHANGED <<now, issued, tree, stored, ops>>
  /\ IF r.data = NoReply
       THEN /\ last' = respond(r.op, Null, r.token, 404, "Token not found.", Null)
            /\ inflight' = inflight \ {r}
            /\ UNCHANGED <<store, history>>
       ELSE LET tokenData == [JSONparse(r.data) EXCEPT !.status = "inactive",
                                                       !.deletedAt = toISOString(now)]
            IN /\ store' = redisDel(store, r.token)
               /\ inflight' = (inflight \ {r}) \cup
                    {request(r.id, r.op, Null, r.token, "del", JSONstringify(tokenData))}
               /\ UNCHANGED <<history, last>>

\* the deactivation from the reply of the get to the second await: not
\* found, or the inactive record is written to the history
DeactivateWrite(r) ==
  /\ r.op \in {"logout", "delete-token"} /\ r.pc = "get"
  /\ UNCHANGED <<now, issued, tree, stored, ops>>
  /\ IF r.data = NoReply
       THEN /\ last' = respond(r.op, Null, r.token, 404, "Token not found.", Null)
            /\ inflight' = inflight \ {r}
            /\ UNCHANGED <<store, history>>
       ELSE LET tokenData == [JSONparse(r.data) EXCEPT !.status = "inactive",
                                                       !.deletedAt = toISOString(now)]
            IN /\ history' = redisHSet(history, tokenData.userId, r.token, JSONstringify(tokenData))
               /\ inflight' = (inflight \ {r}) \cup
                    {request(r.id, r.op, Null, r.token, "del", JSONstringify(tokenData))}
               /\ UNCHANGED <<store, last>>

\* the deactivation from its third await on: the del, then the response
DeactivateDel(r) ==
  /\ r.op \in {"logout", "delete-token"} /\ r.pc = "del"
  /\ store' = redisDel(store, r.token)
  /\ last' = respond(r.op, Null, r.token, 200,
                     IF r.op = "logout" THEN "Logout successful."
                     ELSE "Token deleted successfully.", Null)
  /\ inflight' = inflight \ {r}
  /\ UNCHANGED <<history, now, issued, tree, stored, ops>>

\* POST /reactivate-token up to the first await: the hGet
StartReactivate(limit, userId, token) ==
  /\ Cardinality(inflight) < limit
  /\ ops < MaxRequests /\ ops' = ops + 1
  /\ inflight' = inflight \cup
       {request(ops, "reactivate-token", userId, token, "hGet",
                redisHGet(history, userId, token))}
  /\ UNCHANGED <<store, history, now, issued, last, tree, stored>>

\* the reactivation from the reply of the hGet to the second await: not
\* found, already active, or the live key is set
ReactivateSet(r) ==
  /\ r.op = "reactivate-token" /\ r.pc = "hGet"
  /\ UNCHANGED <<now, issued, tree, stored, ops>>
  /\ IF r.data = NoReply
       THEN /\ last' = respond(r.op, r.userId, r.token, 404, "Token not found in history.", Null)
            /\ inflight' = inflight \ {r}
            /\ UNCHANGED <<store, history>>
       ELSE IF JSONparse(r.data).status = "active"
         THEN /\ last' = respond(r.op, r.userId, r.token, 400, "Token is already active.", Null)
              /\ inflight' = inflight \ {r}
              /\ UNCHANGED <<store, history>>
         ELSE LET tokenData == [JSONparse(r.data) EXCEPT
                                  !.status = "active", !.deletedAt = Null]
              IN /\ store' = redisSet(store, r.token, JSONstringify(tokenData), TTL)
                 /\ inflight' = (inflight \ {r}) \cup
                      {request(r.id, r.op, r.userId, r.token, "hSet", JSONstringify(tokenData))}
                 /\ UNCHANGED <<history, last>>

\* the reactivation from its third await on: the history write, then the
\* response
ReactivateHSet(r) ==
  /\ r.op = "reactivate-token" /\ r.pc = "hSet"
  /\ history' = redisHSet(history, r.userId, r.token, r.data)
  /\ last' = respond(r.op, r.userId, r.token, 200, "Token reactivated successfully.", Null)
  /\ inflight' = inflight \ {r}
  /\ UNCHANGED <<store, now, issued, tree, stored, ops>>

\* the process stops while the request is between its two store writes
Crash(r) ==
  /\ r.pc \in {"hSet", "del"}
  /\ inflight' = (inflight \ {r}) \cup
       {request(r.id, r.op, r.userId, r.token, "crashed", r.data)}
  /\ UNCHANGED <<store, history, now, issued, last, tree, stored, ops>>

\* ------------------------------------------------------------ RadixTree
\* A string is a sequence of code points; the trie is a map from the path
\* of a node (the property names leading to it from the root, each a
\* sequence of UTF-16 code units) to the node's fields.
\* "a" and U+1F600, a character outside the Basic Multilingual Plane
Alphabet == {97, 128512}
Values == {"v1", "v2"}

RECURSIVE SeqsUpTo(_)
SeqsUpTo(n) ==
  IF n = 0 THEN {<<>>}
  ELSE LET shorter == SeqsUpTo(n - 1)
       IN shorter \cup {Append(q, c) : q \in {r \in shorter : Len(r) = n - 1}, c \in Alphabet}

Keys == SeqsUpTo(MaxKeyLen)

\* the UTF-16 code units of one code point
CodeUnits(cp) ==
  IF cp < 65536 THEN <<cp>>
  ELSE <<55296 + ((cp - 65536) \div 1024), 56320 + ((cp - 65536) % 1024)>>

\* the string as its code units: key.length is Len(UTF16(key)) and
\* key[i] is the one-unit string <<UTF16(key)[i + 1]>>
RECURSIVE UTF16(_)
UTF16(key) == IF key = <<>> THEN <<>> ELSE CodeUnits(Head(key)) \o UTF16(Tail(key))

\* for (const char of key): one string per code point
Chars(key) == [i \in 1..Len(key) |-> CodeUnits(key[i])]

\* new RadixTreeNode()
RadixTreeNode == [isEnd |-> FALSE, value |-> Null]

\* new RadixTree()
RadixTree == [p \in {<<>>} |-> RadixTreeNode]

\* Object.keys(node.children)
Children(t, node) ==
  {p \in DOMAIN t : Len(p) = Len(node) + 1 /\ SubSeq(p, 1, Len(node)) = node}

\* the nodes below (and including) the one at path node
Subtree(t, node) ==
  {p \in DOMAIN t : Len(p) >= Len(node) /\ SubSeq(p, 1, Len(node)) = node}

\* the insert loop putting a new node at every position, present or not
RECURSIVE insertFromReset(_, _, _, _)
insertFromReset(t, node, chars, value) ==
  IF chars = <<>>
    THEN [t EXCEPT ![node] = [isEnd |-> TRUE, value |-> value]]
    ELSE LET child == Append(node, Head(chars))
             t2 == [p \in DOMAIN t \cup {child} |->
                      IF p = child THEN RadixTreeNode ELSE t[p]]
         IN insertFromReset(t2, child, Tail(chars), value)

\* RadixTree.insert(key, value), the loop from position node on
RECURSIVE insertFrom(_, _, _, _)
insertFrom(t, node, chars, value) ==
  IF chars = <<>>
    THEN [t EXCEPT ![node] = [isEnd |-> TRUE, value |-> value]]
    ELSE LET child == Append(node, Head(chars))
             t2 == IF child \in DOMAIN t THEN t
                   ELSE [p \in DOMAIN t \cup {child} |->
                           IF p = child THEN RadixTreeNode ELSE t[p]]
         IN insertFrom(t2, child, Tail(chars), value)

insert(t, key, value) == insertFrom(t, <<>>, Chars(key), value)

\* RadixTree.search(key), the loop from position node on
RECURSIVE searchFrom(_, _, _)
searchFrom(t, node, chars) ==
  IF chars = <<>>
    THEN IF t[node].isEnd THEN t[node].value ELSE Null
    ELSE LET child == Append(node, Head(chars))
         IN IF child \notin DOMAIN t THEN Null
            ELSE searchFrom(t, child, Tail(chars))

search(t, key) == searchFrom(t, <<>>, Chars(key))

\* deleteRecursively reporting a childless node dead although a key ends there
RECURSIVE deleteRecursivelyNoEndCheck(_, _, _, _)
deleteRecursivelyNoEndCheck(t, units, node, depth) ==
  IF node \notin DOMAIN t THEN [tree |-> t, ret |-> FALSE]
  ELSE IF depth = Len(units)
    THEN IF ~t[node].isEnd THEN [tree |-> t, ret |-> FALSE]
         ELSE [tree |-> [t EXCEPT ![node].isEnd = FALSE],
               ret |-> Children(t, node) = {}]
    ELSE LET char == <<units[depth + 1]>>
             child == Append(node, char)
             sub == deleteRecursivelyNoEndCheck(t, units, child, depth + 1)
         IN IF sub.ret
              THEN LET t2 == [p \in DOMAIN sub.tree \ Subtree(sub.tree, child) |-> sub.tree[p]]
                   IN [tree |-> t2, ret |-> Children(t2, node) = {}]
              ELSE [tree |-> sub.tree, ret |-> FALSE]

\* deleteRecursively removing the child whatever the call on it returned
RECURSIVE deleteRecursivelyAlways(_, _, _, _)
deleteRecursivelyAlways(t, units, node, depth) ==
  IF node \notin DOMAIN t THEN [tree |-> t, ret |-> FALSE]
  ELSE IF depth = Len(units)
    THEN IF ~t[node].isEnd THEN [tree |-> t, ret |-> FALSE]
         ELSE [tree |-> [t EXCEPT ![node].isEnd = FALSE],
               ret |-> Children(t, node) = {}]
    ELSE LET char == <<units[depth + 1]>>
             child == Append(node, char)
             sub == deleteRecursivelyAlways(t, units, child, depth + 1)
             t2 == [p \in DOMAIN sub.tree \ Subtree(sub.tree, child) |-> sub.tree[p]]
         IN [tree |-> t2, ret |-> ~t2[node].isEnd /\ Children(t2, node) = {}]

\* deleteRecursively reporting the end node dead whatever children it has
RECURSIVE deleteRecursivelyEager(_, _, _, _)
deleteRecursivelyEager(t, units, node, depth) ==
  IF node \notin DOMAIN t THEN [tree |-> t, ret |-> FALSE]
  ELSE IF depth = Len(units)
    THEN IF ~t[node].isEnd THEN [tree |-> t, ret |-> FALSE]
         ELSE [tree |-> [t EXCEPT ![node].isEnd = FALSE], ret |-> TRUE]
    ELSE LET char == <<units[depth + 1]>>
             child == Append(node, char)
             sub == deleteRecursivelyEager(t, units, child, depth + 1)
         IN IF sub.ret
              THEN LET t2 == [p \in DOMAIN sub.tree \ Subtree(sub.tree, child) |-> sub.tree[p]]
                   IN [tree |-> t2,
                       ret |-> ~t2[node].isEnd /\ Children(t2, node) = {}]
              ELSE [tree |-> sub.tree, ret |-> FALSE]

\* deleteRecursively(node, depth) of RadixTree.delete(key): the tree
\* after the call and the value returned
RECURSIVE deleteRecursively(_, _, _, _)
deleteRecursively(t, units, node, depth) ==
  IF node \notin DOMAIN t THEN [tree |-> t, ret |-> FALSE]
  ELSE IF depth = Len(units)
    THEN IF ~t[node].isEnd THEN [tree |-> t, ret |-> FALSE]
         ELSE [tree |-> [t EXCEPT ![node].isEnd = FALSE],
               ret |-> Children(t, node) = {}]
    ELSE LET char == <<units[depth + 1]>>
             child == Append(node, char)
             sub == deleteRecursively(t, units, child, depth + 1)
         IN IF sub.ret
              THEN LET t2 == [p \in DOMAIN sub.tree \ Subtree(sub.tree, child) |-> sub.tree[p]]
                   IN [tree |-> t2,
                       ret |-> ~t2[node].isEnd /\ Children(t2, node) = {}]
              ELSE [tree |-> sub.tree, ret |-> FALSE]

delete(t, key) == deleteRecursively(t, UTF16(key), <<>>, 0).tree

\* the record of a trie call: the call and what search(key) gave before it
result(op, key, value, before) == [op |-> op, key |-> key, value |-> value, before |-> before]

\* tree.insert(key, value)

Insert(key, value) ==
  /\ ops < MaxOps /\ ops' = ops + 1
  /\ tree' = insert(tree, key, value)
  /\ stored' = [k \in DOMAIN stored \cup {key} |-> IF k = key THEN value ELSE stored[k]]
  /\ last' = result("insert", key, value, search(tree, key))
  /\ UNCHANGED <<store, history, now, issued, inflight>>

\* tree.delete(key)
Delete(key) ==
  /\ ops < MaxOps /\ ops' = ops + 1
  /\ tree' = delete(tree, key)
  /\ stored' = [k \in DOMAIN stored \cup {key} |-> IF k = key THEN Null ELSE stored[k]]
  /\ last' = result("delete", key, Null, search(tree, key))
  /\ UNCHANGED <<store, history, now, issued, inflight>>

\* ------------------------------------------------------- specifications
Init ==
  /\ store = Empty
  /\ history = [u \in Users |-> Empty]
  /\ now = 0
  /\ issued = [u \in Users |-> {}]
  /\ last = respond("start", Null, Null, 200, "", Null)
  /\ tree = RadixTree
  /\ stored = Empty
  /\ ops = 0
  /\ inflight = {}

Next ==
  \/ \E u \in Users, existingUser \in BOOLEAN : Register(u, existingUser)
  \/ \E u \in Users, userFound \in BOOLEAN, isPasswordValid \in BOOLEAN :
       Login(u, userFound, isPasswordValid)
  \/ \E token \in Tokens : Logout(token)
  \/ \E token \in Tokens : DeleteToken(token)
  \/ \E userId \in Users, token \in Tokens : ReactivateToken(userId, token)
  \/ \E userId \in Users : TokenHistory(userId)
  \/ \E seconds \in {TickSeconds, TTL} : Tick(seconds)

Spec == Init /\ [][Next]_vars

\* requests one at a time, any of which may be cut short by a crash
\* between its two writes, after which nothing runs
CrashNext ==
  \/ \E op \in {"register", "login"}, u \in Users, token \in Tokens : StartIssue(1, op, u, token)
  \/ \E op \in {"logout", "delete-token"}, token \in Tokens : StartDeactivate(1, op, token)
  \/ \E u \in Users, token \in Tokens : StartReactivate(1, u, token)
  \/ \E r \in inflight : FinishIssue(r)
  \/ \E r \in inflight : DeactivateWrite(r)
  \/ \E r \in inflight : DeactivateDel(r)
  \/ \E r \in inflight : ReactivateSet(r)
  \/ \E r \in inflight : ReactivateHSet(r)
  \/ \E r \in inflight : Crash(r)
  \/ inflight = {} /\ \E seconds \in {TickSeconds, TTL} : Tick(seconds)

CrashSpec == Init /\ [][CrashNext]_vars

\* requests interleaved at their awaits; no crash and no expiry
ConcNext ==
  \/ \E op \in {"register", "login"}, u \in Users, token \in Tokens :
       StartIssue(MaxInflight, op, u, token)
  \/ \E op \in {"logout", "delete-token"}, token \in Tokens :
       StartDeactivate(MaxInflight, op, token)
  \/ \E u \in Users, token \in Tokens : StartReactivate(MaxInflight, u, token)
  \/ \E r \in inflight : FinishIssue(r)
  \/ \E r \in inflight : DeactivateWrite(r)
  \/ \E r \in inflight : DeactivateDel(r)
  \/ \E r \in inflight : ReactivateSet(r)
  \/ \E r \in inflight : ReactivateHSet(r)

ConcSpec == Init /\ [][ConcNext]_vars

TreeNext ==
  \/ \E key \in Keys, value \in Values : Insert(key, value)
  \/ \E key \in Keys : Delete(key)

TreeSpec == Init /\ [][TreeNext]_vars

\* --------------------------------------------------------------- claims
\* the record stored under token in the expiring store (token is live)
liveRecord(db, token) == JSONparse(redisGet(db, token))

\* the record history(userId) holds under token
historyRecord(h, userId, token) == JSONparse(redisHGet(h, userId, token))

\* the step serves a request of one of the kinds in opNames
Serves(opNames) == ops' = ops + 1 /\ last'.op \in opNames

issueOps == {"register", "login"}
deactivateOps == {"logout", "delete-token"}

\* C1: in the state an issuance for user u leaves, having returned token
\* t, the expiring store holds under t a record with status active and
\* owner u, and history(u) holds the same record under t.
C1_IssuanceRoundTrip ==
  (last.op \in issueOps /\ last.data # Null) =>
    /\ redisGet(store, last.data) # NoReply
    /\ liveRecord(store, last.data).status = "active"
    /\ liveRecord(store, last.data).userId = last.userId
    /\ redisHGet(history, last.userId, last.data) = redisGet(store, last.data)

C1_Witness ==
  /\ last.op = "login" /\ last.code = 200
  /\ last.data \in DOMAIN store
  /\ liveRecord(store, last.data).userId = last.userId
  /\ last.data \in DOMAIN history[last.userId]

\* C2: a logout or delete-token of a token t that is live with owner u
\* succeeds and leaves t absent from the expiring store, while history(u)
\* holds t with status inactive and a deactivation timestamp.
C2_DeactivateThenValidate ==
  [][\A t \in Tokens :
       (Serves(deactivateOps) /\ last'.token = t /\ redisGet(store, t) # NoReply) =>
         LET u == liveRecord(store, t).userId
         IN /\ last'.code = 200
            /\ redisGet(store', t) = NoReply
            /\ redisHGet(history', u, t) # NoReply
            /\ historyRecord(history', u, t).status = "inactive"
            /\ historyRecord(history', u, t).deletedAt # Null
            /\ historyRecord(history', u, t).userId = u]_vars

C2_Witness ==
  /\ last.op = "delete-token" /\ last.code = 200
  /\ last.token \notin DOMAIN store
  /\ \E u \in Users :
       /\ last.token \in DOMAIN history[u]
       /\ historyRecord(history, u, last.token).status = "inactive"
       /\ historyRecord(history, u, last.token).deletedAt = toISOString(now)

\* C3: right after a successful deactivation of t, the history of its
\* owner u holds t inactive, and a reactivate(u, t) served next succeeds:
\* t is live again with status active, no deactivation timestamp and an
\* expiry a full time-to-live after the reactivation, and history(u)
\* holds the same active record.
C3_ReactivateRoundTrip ==
  [][\A t \in Tokens :
       (last.op \in deactivateOps /\ last.code = 200 /\ last.token = t) =>
         /\ \E u \in Users : /\ redisHGet(history, u, t) # NoReply
                             /\ historyRecord(history, u, t).status = "inactive"
                             /\ historyRecord(history, u, t).userId = u
         /\ \A u \in Users :
              ( /\ Serves({"reactivate-token"})
                /\ last'.token = t /\ last'.userId = u
                /\ redisHGet(history, u, t) # NoReply
                /\ historyRecord(history, u, t).status = "inactive" ) =>
                /\ last'.code = 200
                /\ t \in DOMAIN store'
                /\ store'[t].exp = now' + TTL
                /\ liveRecord(store', t).status = "active"
                /\ liveRecord(store', t).deletedAt = Null
                /\ liveRecord(store', t).userId = u
                /\ redisHGet(history', u, t) = redisGet(store', t)]_vars

C3_Witness ==
  /\ last.op = "reactivate-token" /\ last.code = 200
  /\ last.token \in DOMAIN store
  /\ store[last.token].exp = now + TTL
  /\ liveRecord(store, last.token).createdAt # toISOString(now)
  /\ liveRecord(store, last.token).status = "active"

\* C4: a reactivate(u, t) served while history(u) holds t with status
\* active answers already-active and writes neither the expiring store
\* (entries and their expiry) nor any history.
C4_ReactivateActiveNoop ==
  [][\A u \in Users, t \in Tokens :
       ( /\ Serves({"reactivate-token"})
         /\ last'.token = t /\ last'.userId = u
         /\ redisHGet(history, u, t) # NoReply
         /\ historyRecord(history, u, t).status = "active" ) =>
         /\ last'.code = 400
         /\ last'.message = "Token is already active."
         /\ store' = store
         /\ history' = history
         /\ now' = now]_vars

C4_Witness ==
  /\ last.op = "reactivate-token" /\ last.code = 400
  /\ last.token \in DOMAIN store
  /\ store[last.token].exp < now + TTL
  /\ historyRecord(history, last.userId, last.token).status = "active"

\* C5: a reactivate(u, t) served while history(u) holds t and t is not
\* live in the expiring store (deactivated or expired) succeeds and
\* leaves t live and active.
C5_NoTerminalState ==
  [][\A u \in Users, t \in Tokens :
       ( /\ Serves({"reactivate-token"})
         /\ last'.token = t /\ last'.userId = u
         /\ redisHGet(history, u, t) # NoReply
         /\ redisGet(store, t) = NoReply ) =>
         /\ last'.code = 200
         /\ redisGet(store', t) # NoReply
         /\ liveRecord(store', t).status = "active"]_vars

\* C6: every record of the expiring store and of the histories has status
\* active or inactive; an issuance leaves its token active in both; apart
\* from issuance no history entry appears, and an entry changes status
\* only from active to inactive in a successful deactivation of its token
\* or from inactive to active in a successful reactivation of it.
C6_StateMachine ==
  [][/\ \A t \in DOMAIN store' :
          liveRecord(store', t).status \in {"active", "inactive"}
     /\ \A u \in Users, t \in Tokens :
          /\ redisHGet(history', u, t) # NoReply =>
               historyRecord(history', u, t).status \in {"active", "inactive"}
          /\ IF Serves(issueOps) /\ last'.data = t /\ last'.userId = u
               THEN /\ historyRecord(history', u, t).status = "active"
                    /\ liveRecord(store', t).status = "active"
               ELSE /\ redisHGet(history', u, t) # NoReply => redisHGet(history, u, t) # NoReply
                    /\ ( /\ redisHGet(history, u, t) # NoReply
                         /\ historyRecord(history', u, t).status # historyRecord(history, u, t).status ) =>
                         \/ /\ historyRecord(history, u, t).status = "active"
                            /\ historyRecord(history', u, t).status = "inactive"
                            /\ Serves(deactivateOps) /\ last'.token = t /\ last'.code = 200
                         \/ /\ historyRecord(history, u, t).status = "inactive"
                            /\ historyRecord(history', u, t).status = "active"
                            /\ Serves({"reactivate-token"}) /\ last'.code = 200
                            /\ last'.token = t /\ last'.userId = u]_vars

C6_Witness ==
  /\ last.op = "logout" /\ last.code = 200
  /\ \E u \in Users, t1 \in Tokens, t2 \in Tokens :
       /\ t1 \in DOMAIN history[u] /\ t2 \in DOMAIN history[u]
       /\ historyRecord(history, u, t1).status = "inactive"
       /\ historyRecord(history, u, t1).deletedAt = toISOString(now)
       /\ historyRecord(history, u, t2).status = "active"
       /\ historyRecord(history, u, t2).deletedAt = Null
       /\ historyRecord(history, u, t2).createdAt # toISOString(now)

\* C7: history(u) holds exactly the distinct tokens ever issued to u, one
\* entry each, and the history request lists that many; no step removes
\* an entry, and only an issuance adds one (the token it returns).
C7_HistoryAccumulates ==
  [][\A u \in Users :
       /\ DOMAIN history'[u] = issued'[u]
       /\ DOMAIN history[u] \subseteq DOMAIN history'[u]
       /\ IF Serves(issueOps) /\ last'.userId = u /\ last'.data # Null
            THEN /\ DOMAIN history'[u] = DOMAIN history[u] \cup {last'.data}
                 /\ issued'[u] = issued[u] \cup {last'.data}
            ELSE DOMAIN history'[u] = DOMAIN history[u]
       /\ (Serves({"token-history"}) /\ last'.userId = u) =>
            IF issued[u] = {}
              THEN last'.code = 404
              ELSE /\ last'.code = 200
                   /\ Cardinality(last'.data) = Cardinality(issued[u])
                   /\ {r.token : r \in last'.data} = issued[u]]_vars

C7_Witness ==
  /\ last.op = "token-history" /\ last.code = 200
  /\ Cardinality(last.data) = 2
  /\ issued[last.userId] = Tokens
  /\ store = Empty
  /\ \E r \in last.data : r.status = "inactive"
  /\ \E r \in last.data : r.status = "active"

\* a is a proper prefix of b
properPrefix(a, b) == Len(a) < Len(b) /\ SubSeq(b, 1, Len(a)) = a

\* C8: every key whose latest call was insert(k, v), whatever inserts and
\* deletes of other keys followed, is found by search with the value v.
C8_LookupAfterInsert ==
  \A k \in DOMAIN stored : stored[k] # Null => search(tree, k) = stored[k]

C8_Witness ==
  /\ last.op = "delete" /\ last.before # Null
  /\ \E k \in DOMAIN stored :
       /\ stored[k] # Null
       /\ properPrefix(last.key, k)
       /\ search(tree, k) = stored[k]

\* C9: every key whose latest call was delete(k) is not found by search.
C9_LookupAfterDelete ==
  \A k \in DOMAIN stored : stored[k] = Null => search(tree, k) = Null

\* C10: insert(k, v) makes search(k) give v; when k already held v the
\* tree is left as it was; when k already held any value no node is
\* added, no second terminal node appears and only the node of k is
\* written.
C10_InsertIdempotentOverwrite ==
  [][(ops' = ops + 1 /\ last'.op = "insert") =>
       LET k == last'.key
           v == last'.value
       IN /\ search(tree', k) = v
          /\ search(tree, k) = v => tree' = tree
          /\ search(tree, k) # Null =>
               /\ DOMAIN tree' = DOMAIN tree
               /\ Cardinality({p \in DOMAIN tree' : tree'[p].isEnd}) =
                    Cardinality({p \in DOMAIN tree : tree[p].isEnd})
               /\ tree'[Chars(k)] = [isEnd |-> TRUE, value |-> v]
               /\ \A p \in DOMAIN tree : p # Chars(k) => tree'[p] = tree[p]]_vars

C10_Witness ==
  /\ last.op = "insert"
  /\ last.before # Null /\ last.before # last.value
  /\ search(tree, last.key) = last.value
  /\ Children(tree, Chars(last.key)) # {}
  /\ Len(last.key) = 1

\* C11: a delete(k) leaves search(k2) as it was for every other key k2:
\* siblings under a shared prefix, extensions of k and prefixes of k.
C11_DeleteKeepsOtherKeys ==
  [][(ops' = ops + 1 /\ last'.op = "delete") =>
       \A k2 \in Keys \ {last'.key} : search(tree', k2) = search(tree, k2)]_vars

C11_Witness ==
  /\ last.op = "delete" /\ last.before # Null
  /\ search(tree, last.key) = Null
  /\ \E k2 \in DOMAIN stored :
       /\ Len(k2) = 2 /\ Len(last.key) = 2
       /\ k2 # last.key /\ k2[1] = last.key[1]
       /\ stored[k2] # Null
       /\ search(tree, k2) = stored[k2]

\* C12: a delete(k) of a key that search does not find leaves the whole
\* tree (nodes, terminal flags, values) as it was.
C12_DeleteAbsentNoop ==
  [][(ops' = ops + 1 /\ last'.op = "delete" /\ search(tree, last'.key) = Null) =>
       tree' = tree]_vars

C12_Witness ==
  /\ last.op = "delete" /\ last.before = Null
  /\ Len(last.key) = 1
  /\ Chars(last.key) \in DOMAIN tree
  /\ \E k2 \in DOMAIN stored :
       /\ properPrefix(last.key, k2)
       /\ search(tree, k2) = stored[k2]
       /\ stored[k2] # Null

\* C17: every node other than the root is terminal or has a child, and
\* once every inserted key has been deleted the tree is a root without
\* children.
C17_Compaction ==
  /\ \A p \in DOMAIN tree \ {<<>>} : tree[p].isEnd \/ Children(tree, p) # {}
  /\ (\A k \in DOMAIN stored : stored[k] = Null) => DOMAIN tree = {<<>>}

\* C13: a logout or delete-token of t answers not-found exactly when t is
\* absent from the expiring store, and then writes neither the store nor
\* any history; otherwise it answers ok.
C13_DeactivateNotFound ==
  [][\A t \in Tokens :
       (Serves(deactivateOps) /\ last'.token = t) =>
         /\ last'.code \in {200, 404}
         /\ last'.code = 404 <=> redisGet(store, t) = NoReply
         /\ last'.code = 404 => (store' = store /\ history' = history)]_vars

C13_Witness ==
  /\ last.op = "logout" /\ last.code = 404
  /\ now = 0
  /\ \E u \in Users :
       /\ last.token \in DOMAIN history[u]
       /\ historyRecord(history, u, last.token).status = "inactive"

\* C14: a reactivate(u, t) served while history(u) has no entry for t
\* answers not-found and writes nothing, whatever the other histories
\* hold; a reactivate that succeeds leaves t live with the user it named
\* as owner, and that user's history held t.
C14_ReactivateOwnHistoryOnly ==
  [][\A u \in Users, t \in Tokens :
       (Serves({"reactivate-token"}) /\ last'.token = t /\ last'.userId = u) =>
         /\ redisHGet(history, u, t) = NoReply =>
              /\ last'.code = 404
              /\ store' = store
              /\ history' = history
         /\ last'.code = 200 =>
              /\ redisHGet(history, u, t) # NoReply
              /\ liveRecord(store', t).userId = u
              /\ \A u2 \in Users \ {u} : history'[u2] = history[u2]]_vars

C14_Witness ==
  /\ last.op = "reactivate-token" /\ last.code = 404
  /\ last.token \notin DOMAIN store
  /\ last.token \notin DOMAIN history[last.userId]
  /\ \E u2 \in Users :
       /\ last.token \in DOMAIN history[u2]
       /\ historyRecord(history, u2, last.token).status = "inactive"

\* the owners of the active records held under token, in the expiring
\* store and in the histories of all users
activeOwners(token) ==
  {liveRecord(store, t).userId :
     t \in {x \in DOMAIN store \cap {token} : liveRecord(store, x).status = "active"}}
  \cup {u \in Users : /\ redisHGet(history, u, token) # NoReply
                      /\ historyRecord(history, u, token).status = "active"}

\* C15: no token string has active records of two different owners.
C15_UniqueActiveRecord ==
  \A t \in Tokens : Cardinality(activeOwners(t)) <= 1

ownerEntry(token) ==
  redisHGet(history, liveRecord(store, token).userId, token)

\* C19: in a quiescent state every live token has an identical record in
\* its owner's history, and a token whose history status is inactive is
\* not live.
C19_QuiescentAgreement ==
  /\ \A t \in DOMAIN store : ownerEntry(t) = redisGet(store, t)
  /\ \A u \in Users : \A t \in DOMAIN history[u] :
       JSONparse(history[u][t]).status = "inactive" => t \notin DOMAIN store

\* the requests cut short between their two writes
crashed == {r \in inflight : r.pc = "crashed"}

\* the user whose history the request writes
owner(r) == JSONparse(r.data).userId

\* the live store holds the record the request wrote and the history has
\* no entry for it
Missing(r) ==
  /\ redisGet(store, r.token) = r.data
  /\ redisHGet(history, owner(r), r.token) = NoReply

\* the live store holds the record the request wrote and the history
\* still has an earlier one
Stale(r) ==
  /\ redisGet(store, r.token) = r.data
  /\ redisHGet(history, owner(r), r.token) \notin {NoReply, r.data}

\* the request wrote what the two stores already held
Agree(r) ==
  /\ redisGet(store, r.token) = r.data
  /\ redisHGet(history, owner(r), r.token) = r.data

\* the history holds the inactive record the request wrote and the token
\* is still live and active
Ahead(r) ==
  /\ redisHGet(history, owner(r), r.token) = r.data
  /\ JSONparse(r.data).status = "inactive"
  /\ JSONparse(r.data).deletedAt # Null
  /\ redisGet(store, r.token) =
       JSONstringify([JSONparse(r.data) EXCEPT !.status = "active", !.deletedAt = Null])

\* C16 as stated: after a crash between the two writes of an operation,
\* the live store is the one ahead - the token is live and its history
\* entry is missing or stale.
C16_CrashWindow ==
  \A r \in crashed : Missing(r) \/ Stale(r) \/ Agree(r)

\* the tokens of the requests that took a step
acting == {r.token : r \in (inflight \ inflight') \cup (inflight' \ inflight)}

\* C16: a crash between the two writes of an operation leaves one of three
\* disagreements on the operation's token - an issuance leaves the live
\* token missing from the history (or over an earlier entry), a
\* reactivation leaves the history inactive under an active live record,
\* a deactivation, which writes the history first, leaves the history
\* inactive with its deletion time while the token is still live and
\* active; no step of a request writes the entries of another token or
\* the history of another user.
C16_CrashWindowKinds ==
  [][/\ \A r \in crashed' :
          /\ r.op \in issueOps => (Missing(r) \/ Stale(r) \/ Agree(r))'
          /\ r.op = "reactivate-token" =>
               (Stale(r) /\ JSONparse(redisHGet(history, owner(r), r.token)).status = "inactive")'
          /\ r.op \in deactivateOps => Ahead(r)'
     /\ now' = now =>
          /\ \A t \in Tokens \ acting :
               /\ redisGet(store', t) = redisGet(store, t)
               /\ \A u \in Users : redisHGet(history', u, t) = redisHGet(history, u, t)
          /\ \A u \in Users : history'[u] # history[u] =>
               \E r \in inflight \ inflight' : r.data # NoReply /\ owner(r) = u]_vars

\* a deactivation stopped after its history write
C16_Witness ==
  \E r \in crashed : r.op \in deactivateOps /\ Ahead(r)

\* the users whose history has an entry for the token
holders(token) == {u \in Users : token \in DOMAIN history[u]}

\* C20: with requests interleaved at their awaits, once no request is in
\* flight a token held by one user is live exactly when that user's
\* history says active.
C20_ConcurrentAgreement ==
  inflight = {} =>
    \A t \in Tokens : \A u \in Users :
      holders(t) = {u} =>
        (t \in DOMAIN store <=> JSONparse(history[u][t]).status = "active")

====
